---- MODULE Spec2Model ----
(***************************************************************************)
(* Model of src/GoldMSSTracker.py: class MarketStructureTracker.            *)
(*                                                                          *)
(* The specifications share the state:                                      *)
(*   Spec            the program as main() starts it: the tracker is        *)
(*                   constructed from the configuration file and run()      *)
(*                   enters the gate _wait_until_next_15_minute_interval.   *)
(*   SpecRunning     the scheduling loop of run() from line 197 on (job     *)
(*                   registration, run_pending / sleep loop, the cycle      *)
(*                   analyze_and_notify with its thread pool).              *)
(*   FairSpecRunning SpecRunning with weak fairness of every step: the      *)
(*                   loop thread and the pool threads are OS threads that   *)
(*                   keep running, and every blocking call has a timeout.   *)
(*   SpecCycle       one call of _safe_analyze_and_notify on a tracker with  *)
(*                   up to MaxInstruments symbols; the pool takes the tasks *)
(*                   in list order and only the first symbols get data.     *)
(*   SpecDetect      detect_market_structure_shift called on one series     *)
(*                   drawn from a bounded family of series.                 *)
(* Time is counted in seconds.                                              *)
(***************************************************************************)
EXTENDS Integers, Sequences, FiniteSets, TLC

VARIABLES
    sched,            \* position of the main thread in run()
    now,              \* wall clock (New York), seconds since midnight of day 0
    slept,            \* the gate has completed at least one time.sleep
    nextRunIn,        \* seconds until the job's next_run (0 = due)
    sinceStart,       \* seconds since the last cycle started, NoCycle if none
    faults,           \* faults raised so far inside the scheduling loop
    symbols,          \* self.symbols
    discord_webhook,  \* self.discord_webhook
    interval,         \* self.interval (INTERVAL), in seconds
    discord_enabled,  \* self.discord_enabled
    config_file,      \* what is found at config_path
    raised,           \* an exception escaped analyze_and_notify
    wpc,              \* per symbol: position of its analyze_symbol task
    data,             \* per symbol: what fetch_data returned (0 = None)
    verdict,          \* per symbol: what detect_market_structure_shift returned
    caughtBy,         \* per symbol: the handler that caught its error
    fetchCalls,       \* per symbol: calls of fetch_data
    notifyCalls,      \* per symbol: calls of send_discord_notification
    netCalls,         \* per symbol: calls of requests.post
    series,           \* the frame detect_market_structure_shift is called on
    detected          \* what that call returned

vars == << sched, now, slept, nextRunIn, sinceStart, faults, symbols,
           discord_webhook, interval, discord_enabled, config_file, raised, wpc, data, verdict, caughtBy,
           fetchCalls, notifyCalls, netCalls, series, detected >>

schedVars  == << sched, nextRunIn, sinceStart, faults, raised >>
gateVars   == << now, slept >>
configVars == << symbols, discord_webhook, interval, discord_enabled, config_file >>
workVars   == << wpc, data, verdict, caughtBy, fetchCalls, notifyCalls, netCalls >>
detectVars == << series, detected >>

(***************************************************************************)
(* Bounds of the model.                                                     *)
(***************************************************************************)
MaxDays == 3            \* the gate's clock wraps after this many days
MaxFaults == 2          \* faults injected into the scheduling loop
MaxCycleSeconds == 901  \* longest cycle (longer than one period: an overrun)
MaxBars == 11           \* longest series given to the detector on its own
MaxTail == 6            \* longest final segment of such a series
MaxInstruments == 11    \* most symbols a tracker is configured with

(***************************************************************************)
(* Program constants.                                                       *)
(***************************************************************************)
GateMinutes == 15       \* the 15-minute grid of the gate
SchedulePeriod == 900   \* schedule.every(15).minutes
PollSleep == 1          \* time.sleep(1)
CoolDown == 60          \* time.sleep(60)
MaxWorkersCap == 10     \* min(10, len(self.symbols))
MinBars == 10           \* len(data) < 10
ShortWindow == 5        \* closes[-5:]
LongWindow == 10        \* closes[-10:]
ThresholdDen == 200     \* 0.005 = 1/200

DaySeconds == 86400
HourSeconds == 3600
MinuteSeconds == 60

NoCycle == -1
NoWebhook == "none"
Webhooks == {NoWebhook, "https://discord/webhook"}
\* the symbol strings a configuration may list, " AAA" being AAA with a
\* leading blank
InstrumentNames == << "AAA", " AAA", "BBB", "CCC", "DDD", "EEE", "FFF", "GGG",
                      "HHH", "III", "JJJ", "KKK", "LLL", "MMM" >>
Instruments == {InstrumentNames[i] : i \in 1..MaxInstruments}
Listed == {"AAA", "BBB"}            \* the symbols listed under SpecRunning and Spec

\* symbol.strip()
Strip(s) == IF s = " AAA" THEN "AAA" ELSE s
Intervals == {900, 1800, 3600}      \* INTERVAL = 15m, 30m, 1h
ConfigFiles == {"missing", "unparseable", "empty", "valid"}
StartSeconds == {0, 1, 59}          \* second of the minute at which run() starts

Max2(a, b) == IF a >= b THEN a ELSE b
Min2(a, b) == IF a <= b THEN a ELSE b
Abs(x) == IF x < 0 THEN -x ELSE x

(***************************************************************************)
(* Price series.  A frame is what ticker.history returns: rows of bars and  *)
(* whether the High/Low/Close columns are present.  Prices are integers.    *)
(***************************************************************************)
Bar(h, l, c) == [High |-> h, Low |-> l, Close |-> c]
Rep(b, n) == [i \in 1..n |-> b]

FlatFrame ==
    [columns |-> TRUE, bars |-> Rep(Bar(101, 99, 100), 10)]
LowerLowFrame ==
    [columns |-> TRUE, bars |-> Rep(Bar(101, 99, 100), 9) \o << Bar(101, 98, 100) >>]
TrendFrame ==
    [columns |-> TRUE,
     bars |-> Rep(Bar(120, 90, 100), 5) \o Rep(Bar(120, 90, 102), 4)
                \o << Bar(120, 90, 110) >>]
HigherHighFrame ==
    [columns |-> TRUE,
     bars |-> Rep(Bar(120, 90, 100), 6) \o Rep(Bar(120, 90, 102), 4)
                \o << Bar(121, 90, 110) >>]
ShortFrame ==
    [columns |-> TRUE, bars |-> Rep(Bar(101, 99, 100), 9)]
MalformedFrame ==
    [columns |-> FALSE, bars |-> Rep(Bar(0, 0, 0), 10)]

\* the frames the provider may return; data[s] is an index into it, 0 is None
FramePool == << FlatFrame, LowerLowFrame, TrendFrame, HigherHighFrame,
                ShortFrame, MalformedFrame >>
NoData == 0
DataValues == 0..Len(FramePool)

\* numpy's nan, as a value no price or sum of prices takes
NaN == -1000000
HasNaN(q) == \E i \in 1..Len(q) : q[i] = NaN

RECURSIVE SeqMax(_)
SeqMax(q) == IF Len(q) = 1 THEN q[1] ELSE Max2(q[1], SeqMax(Tail(q)))
RECURSIVE SeqMin(_)
SeqMin(q) == IF Len(q) = 1 THEN q[1] ELSE Min2(q[1], SeqMin(Tail(q)))
RECURSIVE SeqSum(_)
SeqSum(q) == IF q = << >> THEN 0 ELSE q[1] + SeqSum(Tail(q))

\* mutant: the window is one value short
LastNOneShort(q, n) == SubSeq(q, Max2(1, Len(q) - n + 2), Len(q))

\* q[-n:]
LastN(q, n) == SubSeq(q, Max2(1, Len(q) - n + 1), Len(q))
AllButLast(q) == SubSeq(q, 1, Len(q) - 1)

\* abs(ma_short - ma_long) / ma_long > 0.005 on the sums of the two windows:
\* ma_short = s5/5, ma_long = s10/10, so the quotient is |2*s5 - s10| / s10.
\* numpy float division: x/0 is inf (nan for 0/0) and raises nothing.
\* any comparison with nan is False.
TrendChange(s5, s10) ==
    IF s5 = NaN \/ s10 = NaN THEN FALSE
    ELSE IF s10 > 0 THEN ThresholdDen * Abs(2 * s5 - s10) > s10
    ELSE IF s10 = 0 THEN 2 * s5 # 0
    ELSE FALSE

\* np.mean, np.max and np.min of values with a nan are nan
NanSum(q) == IF HasNaN(q) THEN NaN ELSE SeqSum(q)

NoVerdict == [none |-> TRUE]
NoFrame == [missing |-> TRUE]

\* detect_market_structure_shift on a frame that has its columns
ShiftOf(bars) ==
    LET highs  == [i \in 1..Len(bars) |-> bars[i].High]
        lows   == [i \in 1..Len(bars) |-> bars[i].Low]
        closes == [i \in 1..Len(bars) |-> bars[i].Close]
        s5     == NanSum(LastN(closes, ShortWindow))
        s10    == NanSum(LastN(closes, LongWindow))
    IN  [higher_high   |-> /\ ~HasNaN(highs)
                           /\ highs[Len(highs)] > SeqMax(AllButLast(highs)),
         lower_low     |-> /\ ~HasNaN(lows)
                           /\ lows[Len(lows)] < SeqMin(AllButLast(lows)),
         trend_change  |-> TrendChange(s5, s10),
         current_price |-> closes[Len(closes)],
         sum_short     |-> s5,
         sum_long      |-> s10]

\* mutant: the length test is off by one
TooShortByOne(f) == Len(f.bars) < MinBars - 1

\* len(data) < 10
TooShort(f) == Len(f.bars) < MinBars

\* detect_market_structure_shift(data): None for missing or short data, None
\* when the body raises (a missing column is a KeyError), else the verdict
DetectFrame(f) ==
    IF f = NoFrame THEN NoVerdict
    ELSE IF TooShort(f) THEN NoVerdict
    ELSE IF ~f.columns THEN NoVerdict
    ELSE ShiftOf(f.bars)

\* the body of detect_market_structure_shift raised and its handler caught it
DetectFrameRaises(f) ==
    /\ f # NoFrame
    /\ ~TooShort(f)
    /\ ~f.columns

\* the frame behind a value of data[s]
FrameOf(d) == IF d = NoData THEN NoFrame ELSE FramePool[d]

DetectShift(d) == DetectFrame(FrameOf(d))

DetectRaises(d) == DetectFrameRaises(FrameOf(d))

(***************************************************************************)
(* Initial states.                                                          *)
(***************************************************************************)
IdleWork ==
    /\ wpc = [s \in Instruments |-> "idle"]
    /\ data = [s \in Instruments |-> NoData]
    /\ verdict = [s \in Instruments |-> NoVerdict]
    /\ caughtBy = [s \in Instruments |-> "none"]
    /\ fetchCalls = [s \in Instruments |-> 0]
    /\ notifyCalls = [s \in Instruments |-> 0]
    /\ netCalls = [s \in Instruments |-> 0]

\* detect_market_structure_shift has not been called on its own
NoDetect ==
    /\ series = NoFrame
    /\ detected = NoVerdict

\* __init__: self.symbols = list(set(stocks + commodities)); the webhook is
\* the environment's or the configuration's; INTERVAL is the environment's;
\* enabled is the configuration's and False when absent
Configured ==
    /\ \E stocks \in SUBSET Listed, commodities \in SUBSET Listed :
          symbols = stocks \cup commodities
    /\ discord_webhook \in Webhooks
    /\ interval \in Intervals
    /\ discord_enabled \in BOOLEAN
    /\ config_file = "valid"

\* no tracker has been constructed
Unconfigured ==
    /\ symbols = {}
    /\ discord_webhook = NoWebhook
    /\ interval = 900
    /\ discord_enabled = FALSE

\* main() is about to construct the tracker from config.yaml
Init ==
    /\ Unconfigured
    /\ config_file \in ConfigFiles
    /\ sched = "construct"
    /\ now \in {m * MinuteSeconds + sec : m \in 0..(DaySeconds \div MinuteSeconds - 1),
                                           sec \in StartSeconds}
    /\ slept = FALSE
    /\ nextRunIn = 0
    /\ sinceStart = NoCycle
    /\ faults = 0
    /\ raised = FALSE
    /\ IdleWork
    /\ NoDetect

\* run() at line 197: the gate has returned, the job is about to be
\* registered; the enablement flag has its default
InitRunning ==
    /\ Configured
    /\ discord_enabled = FALSE
    /\ sched = "register"
    /\ now = 0
    /\ slept = FALSE
    /\ nextRunIn = 0
    /\ sinceStart = NoCycle
    /\ faults = 0
    /\ raised = FALSE
    /\ IdleWork
    /\ NoDetect

(***************************************************************************)
(* __init__: load_config and validate_config                                *)
(***************************************************************************)
\* load_config: {} for a missing or unparseable file and for an empty
\* document (config or {}), else the parsed mapping
LoadConfig(file) ==
    IF file \in {"missing", "unparseable", "empty"} THEN "empty_dict" ELSE "dict"

\* validate_config: if not self.config: raise ValueError
ValidateRaises(config) == config = "empty_dict"

\* tracker = MarketStructureTracker(config_path); tracker.run() up to the
\* call of the gate.  A ValueError out of __init__ ends main().
Construct ==
    /\ sched = "construct"
    /\ IF ValidateRaises(LoadConfig(config_file))
       THEN /\ sched' = "crashed"
            /\ UNCHANGED << symbols, discord_webhook, interval, discord_enabled >>
       ELSE /\ sched' = "gate"
            /\ \E stocks \in SUBSET Listed, commodities \in SUBSET Listed :
                  symbols' = stocks \cup commodities
            /\ discord_webhook' \in Webhooks
            /\ interval' \in Intervals
            /\ discord_enabled' \in BOOLEAN
    /\ UNCHANGED config_file
    /\ UNCHANGED << nextRunIn, sinceStart, faults, raised >>
    /\ UNCHANGED gateVars
    /\ UNCHANGED workVars
    /\ UNCHANGED detectVars

(***************************************************************************)
(* _wait_until_next_15_minute_interval                                      *)
(***************************************************************************)
DayOf(t) == t \div DaySeconds
MinuteOf(t) == (t % HourSeconds) \div MinuteSeconds

\* next_run_time as the loop body computes it from now_ny
NextRunTime(t) ==
    LET next_run_minute == ((MinuteOf(t) \div GateMinutes) + 1) * GateMinutes
        hour_start      == t - (t % HourSeconds)
        next_run_time   == hour_start + next_run_minute * MinuteSeconds
    IN  IF DayOf(next_run_time) # DayOf(t)
        THEN DayOf(next_run_time) * DaySeconds + DaySeconds
        ELSE next_run_time

SleepDuration(t) == NextRunTime(t) - t

\* one iteration of the while loop: break when sleep_duration <= 0, else
\* sleep until next_run_time
GateIterate ==
    /\ sched = "gate"
    /\ IF SleepDuration(now) <= 0
       THEN /\ sched' = "register"
            /\ UNCHANGED << now, slept >>
       ELSE /\ sched' = "gate"
            /\ now' = NextRunTime(now) % (MaxDays * DaySeconds)
            /\ slept' = TRUE
    /\ UNCHANGED << nextRunIn, sinceStart, faults, raised >>
    /\ UNCHANGED configVars
    /\ UNCHANGED detectVars
    /\ UNCHANGED workVars

(***************************************************************************)
(* run(): the schedule library's job and the polling loop                   *)
(***************************************************************************)
\* time passes for the main thread: the job's next_run comes nearer
Elapse(t) ==
    /\ nextRunIn' = Max2(0, nextRunIn - t)
    /\ sinceStart' = IF sinceStart = NoCycle THEN NoCycle ELSE sinceStart + t

\* mutant: the next run is counted from the previous start, so a job that
\* overran its period is due at once
NextRunDelayCatchUp == Max2(0, SchedulePeriod - MaxCycleSeconds)

\* Job._schedule_next_run: next_run = datetime.now() + period
NextRunDelay == SchedulePeriod

\* schedule.every(15).minutes.do(self._safe_analyze_and_notify)
Register ==
    /\ sched = "register"
    /\ nextRunIn' = NextRunDelay
    /\ sched' = "run_pending"
    /\ UNCHANGED << sinceStart, faults, raised >>
    /\ UNCHANGED gateVars
    /\ UNCHANGED configVars
    /\ UNCHANGED detectVars
    /\ UNCHANGED workVars

\* schedule.run_pending(): the job runs when now >= next_run
RunPending ==
    /\ sched = "run_pending"
    /\ sched' = IF nextRunIn = 0 THEN "job" ELSE "sleep"
    /\ UNCHANGED << nextRunIn, sinceStart, faults, raised >>
    /\ UNCHANGED gateVars
    /\ UNCHANGED configVars
    /\ UNCHANGED detectVars
    /\ UNCHANGED workVars

\* the try body raises: except Exception (line 203)
LoopFault ==
    /\ sched = "run_pending"
    /\ faults < MaxFaults
    /\ faults' = faults + 1
    /\ sched' = "cooldown"
    /\ UNCHANGED << nextRunIn, sinceStart, raised >>
    /\ UNCHANGED gateVars
    /\ UNCHANGED configVars
    /\ UNCHANGED detectVars
    /\ UNCHANGED workVars

\* time.sleep(1)
Sleep ==
    /\ sched = "sleep"
    /\ Elapse(PollSleep)
    /\ sched' = "run_pending"
    /\ UNCHANGED << faults, raised >>
    /\ UNCHANGED gateVars
    /\ UNCHANGED configVars
    /\ UNCHANGED detectVars
    /\ UNCHANGED workVars

\* mutant: the handler leaves the loop
AfterCoolDownExit == "exited"

\* where the except branch of the loop leaves the main thread
AfterCoolDown == "run_pending"

\* logging.error(...); time.sleep(60)
CoolDownSleep ==
    /\ sched = "cooldown"
    /\ Elapse(CoolDown)
    /\ sched' = AfterCoolDown
    /\ UNCHANGED << faults, raised >>
    /\ UNCHANGED gateVars
    /\ UNCHANGED configVars
    /\ UNCHANGED detectVars
    /\ UNCHANGED workVars

(***************************************************************************)
(* analyze_and_notify: one cycle                                            *)
(***************************************************************************)
Exceptions == {"RequestException", "Exception"}

\* mutant: one thread per symbol
MaxWorkersUnbounded(syms) == Cardinality(syms)

\* max_workers=min(10, len(self.symbols))
MaxWorkers(syms) == Min2(MaxWorkersCap, Cardinality(syms))

\* mutant: only one symbol's task is submitted
SubmittedFirstOnly(syms) ==
    IF syms = {} THEN {} ELSE {CHOOSE s \in syms : TRUE}

\* executor.map(self.analyze_symbol, self.symbols) submits one task per symbol
Submitted(syms) == syms

InFlight == {s \in Instruments : wpc[s] \in {"queued", "fetch", "detect", "notify"}}
Running == {s \in Instruments : wpc[s] \in {"fetch", "detect", "notify"}}

\* _safe_analyze_and_notify calls analyze_and_notify, which builds the pool
\* (ThreadPoolExecutor raises ValueError for max_workers <= 0) and submits
AnalyzeAndNotify ==
    /\ sched = "job"
    /\ sinceStart' = 0
    /\ IF MaxWorkers(symbols) <= 0
       THEN /\ raised' = TRUE
            /\ sched' = "safe_except"
            /\ UNCHANGED workVars
       ELSE /\ raised' = FALSE
            /\ sched' = "pool"
            /\ wpc' = [s \in Instruments |->
                         IF s \in Submitted(symbols) THEN "queued" ELSE wpc[s]]
            /\ UNCHANGED << data, verdict, caughtBy, fetchCalls, notifyCalls, netCalls >>
    /\ UNCHANGED << nextRunIn, faults >>
    /\ UNCHANGED gateVars
    /\ UNCHANGED configVars
    /\ UNCHANGED detectVars

\* a pool thread takes the task of s: analyze_symbol(s) begins
WorkerStart(s) ==
    /\ wpc[s] = "queued"
    /\ Cardinality(Running) < MaxWorkers(symbols)
    /\ wpc' = [wpc EXCEPT ![s] = "fetch"]
    /\ UNCHANGED << data, verdict, caughtBy, fetchCalls, notifyCalls, netCalls >>
    /\ UNCHANGED schedVars
    /\ UNCHANGED gateVars
    /\ UNCHANGED configVars
    /\ UNCHANGED detectVars

\* the except clauses of fetch_data, send_discord_notification, analyze_symbol
FetchCatches(e) == e \in {"RequestException", "Exception"}
NotifyCatches(e) == e = "RequestException"
AnalyzeSymbolCatches(e) == e \in {"RequestException", "Exception"}

\* data = self.fetch_data(symbol.strip()); if data is not None: ...
FetchData(s) ==
    /\ wpc[s] = "fetch"
    /\ \/ \E d \in DataValues :          \* d = NoData: data.empty, None
             /\ data' = [data EXCEPT ![s] = d]
             /\ wpc' = [wpc EXCEPT ![s] = IF d = NoData THEN "done" ELSE "detect"]
             /\ UNCHANGED caughtBy
       \/ \E e \in Exceptions :          \* ticker.history raises
             /\ data' = [data EXCEPT ![s] = NoData]
             /\ wpc' = [wpc EXCEPT ![s] = "done"]
             /\ caughtBy' = [caughtBy EXCEPT ![s] =
                               IF FetchCatches(e) THEN "fetch_data"
                               ELSE IF AnalyzeSymbolCatches(e) THEN "analyze_symbol"
                               ELSE "escaped"]
    /\ fetchCalls' = [fetchCalls EXCEPT ![s] = @ + 1]
    /\ UNCHANGED << verdict, notifyCalls, netCalls >>
    /\ UNCHANGED schedVars
    /\ UNCHANGED gateVars
    /\ UNCHANGED configVars
    /\ UNCHANGED detectVars

\* mutant: the trigger is any of the three flags
NotifyOnAnyFlag(v) ==
    v # NoVerdict /\ (v.higher_high \/ v.lower_low \/ v.trend_change)

\* if mss_result and mss_result['trend_change']
NotifyCondition(v) == v # NoVerdict /\ v.trend_change

\* mss_result = self.detect_market_structure_shift(data) and the test on it
Detect(s) ==
    /\ wpc[s] = "detect"
    /\ verdict' = [verdict EXCEPT ![s] = DetectShift(data[s])]
    /\ caughtBy' = [caughtBy EXCEPT ![s] =
                      IF DetectRaises(data[s])
                      THEN "detect_market_structure_shift" ELSE @]
    /\ wpc' = [wpc EXCEPT ![s] =
                  IF NotifyCondition(DetectShift(data[s])) THEN "notify" ELSE "done"]
    /\ UNCHANGED << data, fetchCalls, notifyCalls, netCalls >>
    /\ UNCHANGED schedVars
    /\ UNCHANGED gateVars
    /\ UNCHANGED configVars
    /\ UNCHANGED detectVars

\* mutant: the webhook guard is missing
PostAlways(webhook) == TRUE

\* if not self.discord_webhook: return
ShouldPost(webhook) == webhook # NoWebhook

\* mutant: a failed post is tried once more
DeliveryAttemptsWithRetry(outcome) == IF outcome = "ok" THEN 1 ELSE 2

\* requests.post calls made by one send_discord_notification with this outcome
DeliveryAttempts(outcome) == 1

\* self.send_discord_notification(symbol, message): the post returns 2xx
\* ("ok"), fails in transport or status (RequestException), or raises
\* something else (Exception)
Notify(s) ==
    /\ wpc[s] = "notify"
    /\ notifyCalls' = [notifyCalls EXCEPT ![s] = @ + 1]
    /\ wpc' = [wpc EXCEPT ![s] = "done"]
    /\ IF ~ShouldPost(discord_webhook)
       THEN UNCHANGED << netCalls, caughtBy >>
       ELSE \E outcome \in {"ok"} \cup Exceptions :
               /\ netCalls' = [netCalls EXCEPT ![s] = @ + DeliveryAttempts(outcome)]
               /\ caughtBy' = [caughtBy EXCEPT ![s] =
                                 IF outcome = "ok" THEN @
                                 ELSE IF NotifyCatches(outcome)
                                      THEN "send_discord_notification"
                                 ELSE IF AnalyzeSymbolCatches(outcome)
                                      THEN "analyze_symbol"
                                 ELSE "escaped"]
    /\ UNCHANGED << data, verdict, fetchCalls >>
    /\ UNCHANGED schedVars
    /\ UNCHANGED gateVars
    /\ UNCHANGED configVars
    /\ UNCHANGED detectVars

\* mutant: the pool is shut down without waiting for its tasks
JoinNoWait(pcs) == TRUE

\* leaving the with block: executor.shutdown(wait=True)
JoinReady(pcs) == \A s \in Instruments : pcs[s] \in {"idle", "done"}

\* analyze_and_notify returns normally
Join ==
    /\ sched = "pool"
    /\ JoinReady(wpc)
    /\ sched' = "job_done"
    /\ UNCHANGED << nextRunIn, sinceStart, faults, raised >>
    /\ UNCHANGED gateVars
    /\ UNCHANGED configVars
    /\ UNCHANGED detectVars
    /\ UNCHANGED workVars

\* except Exception in _safe_analyze_and_notify
SafeExcept ==
    /\ sched = "safe_except"
    /\ sched' = "job_done"
    /\ UNCHANGED << nextRunIn, sinceStart, faults, raised >>
    /\ UNCHANGED gateVars
    /\ UNCHANGED configVars
    /\ UNCHANGED detectVars
    /\ UNCHANGED workVars

\* the job function has returned after d seconds: Job.run reschedules it,
\* run_pending returns; the finished tasks' values are dropped
JobReturn ==
    /\ sched = "job_done"
    /\ \E d \in {0, MaxCycleSeconds} : sinceStart' = sinceStart + d
    /\ nextRunIn' = NextRunDelay
    /\ raised' = FALSE
    /\ sched' = "sleep"
    /\ wpc' = [s \in Instruments |-> IF wpc[s] = "done" THEN "idle" ELSE wpc[s]]
    /\ data' = [s \in Instruments |-> IF wpc[s] = "done" THEN NoData ELSE data[s]]
    /\ verdict' = [s \in Instruments |->
                     IF wpc[s] = "done" THEN NoVerdict ELSE verdict[s]]
    /\ caughtBy' = [s \in Instruments |->
                      IF wpc[s] = "done" THEN "none" ELSE caughtBy[s]]
    /\ fetchCalls' = [s \in Instruments |->
                        IF wpc[s] = "done" THEN 0 ELSE fetchCalls[s]]
    /\ notifyCalls' = [s \in Instruments |->
                         IF wpc[s] = "done" THEN 0 ELSE notifyCalls[s]]
    /\ netCalls' = [s \in Instruments |->
                      IF wpc[s] = "done" THEN 0 ELSE netCalls[s]]
    /\ UNCHANGED faults
    /\ UNCHANGED gateVars
    /\ UNCHANGED configVars
    /\ UNCHANGED detectVars

(***************************************************************************)
(* Specifications                                                           *)
(***************************************************************************)
Next ==
    \/ Construct
    \/ GateIterate

NextRunning ==
    \/ Register
    \/ RunPending
    \/ LoopFault
    \/ Sleep
    \/ CoolDownSleep
    \/ AnalyzeAndNotify
    \/ \E s \in Instruments : WorkerStart(s)
    \/ \E s \in Instruments : FetchData(s)
    \/ \E s \in Instruments : Detect(s)
    \/ \E s \in Instruments : Notify(s)
    \/ Join
    \/ SafeExcept
    \/ JobReturn

Spec == Init /\ [][Next]_vars

SpecRunning == InitRunning /\ [][NextRunning]_vars

FairSpecRunning == SpecRunning /\ WF_vars(NextRunning)


(***************************************************************************)
(* detect_market_structure_shift on its own                                 *)
(***************************************************************************)
\* the bars the series of SpecDetect are made of
BarKinds ==
    { Bar(120, 90, 100), Bar(120, 90, 102), Bar(120, 90, 110),
      Bar(121, 90, 110), Bar(120, 89, 100),
      Bar(1, 1, 1), Bar(-1, -1, -1), Bar(0, 0, 0),
      Bar(120, 90, NaN), Bar(NaN, 90, 100) }

\* the last n bars of: bars a, then h - 1 bars b, then one bar c
SeriesOf(n, h, a, b, c) ==
    [columns |-> TRUE,
     bars |-> SubSeq(Rep(a, MaxBars) \o Rep(b, h - 1) \o << c >>,
                     MaxBars + h - n + 1, MaxBars + h)]

SeriesInputs ==
    { SeriesOf(n, h, a, b, c) :
        n \in 1..MaxBars, h \in 1..MaxTail, a \in BarKinds, b \in BarKinds,
        c \in BarKinds }
    \cup { [columns |-> TRUE, bars |-> << >>], NoFrame, MalformedFrame }

\* a caller holds a series and is about to call the detector
InitDetect ==
    /\ sched = "detect"
    /\ series \in SeriesInputs
    /\ detected = NoVerdict
    /\ Unconfigured
    /\ config_file = "valid"
    /\ now = 0
    /\ slept = FALSE
    /\ nextRunIn = 0
    /\ sinceStart = NoCycle
    /\ faults = 0
    /\ raised = FALSE
    /\ IdleWork

\* mss_result = self.detect_market_structure_shift(data)
DetectCall ==
    /\ sched = "detect"
    /\ detected' = DetectFrame(series)
    /\ sched' = "detected"
    /\ UNCHANGED series
    /\ UNCHANGED << nextRunIn, sinceStart, faults, raised >>
    /\ UNCHANGED gateVars
    /\ UNCHANGED configVars
    /\ UNCHANGED workVars

NextDetect == DetectCall

SpecDetect == InitDetect /\ [][NextDetect]_vars

(***************************************************************************)
(* Properties                                                               *)
(***************************************************************************)
AnyFlag(v) == v.higher_high \/ v.lower_low \/ v.trend_change
HasVerdict(s) == wpc[s] = "done" /\ data[s] # NoData /\ verdict[s] # NoVerdict
AllFalse(v) == v # NoVerdict /\ ~v.higher_high /\ ~v.lower_low /\ ~v.trend_change
OnlyLowerLow(v) == v # NoVerdict /\ ~v.higher_high /\ v.lower_low /\ ~v.trend_change

\* C1 (as claimed): an instrument whose fetch succeeded and whose detector
\* returned a verdict is notified if and only if higherHigh, lowerLow or
\* trendChange is true.
C1_NotifyOnAnyFlag ==
    \A s \in symbols :
        HasVerdict(s) => (notifyCalls[s] = 1 <=> AnyFlag(verdict[s]))

\* C1 (amended): an instrument whose fetch succeeded and whose detector
\* returned a verdict is notified if and only if trendChange is true; with
\* AAA all-false and BBB lowerLow-only no notification is sent.
C1_NotifyOnTrendChange ==
    \A s \in symbols :
        HasVerdict(s) => (notifyCalls[s] = 1 <=> verdict[s].trend_change)

C1_Witness ==
    /\ sched = "job_done"
    /\ symbols = {"AAA", "BBB"}
    /\ HasVerdict("AAA") /\ AllFalse(verdict["AAA"])
    /\ HasVerdict("BBB") /\ OnlyLowerLow(verdict["BBB"])
    /\ notifyCalls["AAA"] = 0 /\ notifyCalls["BBB"] = 0

\* fetch, detect or notify raised or failed for s in this cycle
Failed(s) ==
    /\ wpc[s] = "done"
    /\ \/ caughtBy[s] # "none"
       \/ data[s] = NoData
       \/ verdict[s] = NoVerdict

\* t went through fetch, through detect when it had data, and through notify
\* when its verdict met the trigger of analyze_symbol
Processed(t) ==
    /\ wpc[t] = "done"
    /\ fetchCalls[t] = 1
    /\ data[t] # NoData => verdict[t] = DetectShift(data[t])
    /\ (data[t] # NoData /\ verdict[t] # NoVerdict /\ verdict[t].trend_change)
          => notifyCalls[t] = 1

\* C2: when the cycle completes, no exception has left it and, whenever one
\* instrument failed in fetch, detect or notify, every other instrument of
\* the cycle has been fetched, detected and (when triggered) notified.
C2_FailureIsolation ==
    (sched = "job_done" /\ symbols # {}) =>
        /\ ~raised
        /\ \A s \in symbols : \A t \in symbols \ {s} :
               Failed(s) => Processed(t)

C2_Witness ==
    /\ sched = "job_done"
    /\ caughtBy["AAA"] = "fetch_data"
    /\ notifyCalls["BBB"] = 1
    /\ caughtBy["BBB"] = "none"

\* C3: once the gate has slept to the boundary it computed, the next
\* evaluation of the loop ends the wait and run() goes on to register the job.
C3_GateOpens == [][(sched = "gate" /\ slept) => sched' = "register"]_vars

\* C4: no task of a cycle is unfinished unless the main thread is inside that
\* cycle's pool, so a cycle is dispatched only when every task of the previous
\* cycle has finished, and at most one cycle is in progress.
C4_NoOverlap == sched # "pool" => InFlight = {}

C4_Witness ==
    /\ sched = "job"
    /\ sinceStart # NoCycle
    /\ symbols = Listed

\* C5: the scheduler does not wait before the first cycle: whenever the loop
\* is about to sleep, a cycle has already been started.
C5_FirstCycleImmediately == sched = "sleep" => sinceStart # NoCycle

\* C6: when a cycle is dispatched after an earlier one, the time since the
\* earlier cycle's start is at least the configured INTERVAL minus one second.
C6_GapAtLeastInterval ==
    (sched = "job" /\ sinceStart # NoCycle) =>
        sinceStart >= interval - 1

\* C7: analyze_and_notify never raises, for any set of instruments.
C7_NothingEscapes == ~raised

\* C8: a fault in the scheduling loop is caught, the loop sleeps the 60-second
\* cool-down and returns to polling, and after the fault a cycle is eventually
\* dispatched again.
C8_Recovery ==
    /\ [][sched = "cooldown" =>
            /\ sched' = "run_pending"
            /\ nextRunIn' = Max2(0, nextRunIn - CoolDown)]_vars
    /\ (sched = "cooldown") ~> (sched = "job")

C8_Witness == faults > 0 /\ sched = "job"

DetectedOnFull ==
    /\ sched = "detected"
    /\ series # NoFrame
    /\ series.columns
    /\ Len(series.bars) >= 10

FiniteBars(bars) ==
    \A i \in 1..Len(bars) :
        bars[i].High # NaN /\ bars[i].Low # NaN /\ bars[i].Close # NaN

RECURSIVE CloseSumFrom(_, _)
CloseSumFrom(bars, i) ==
    IF i > Len(bars) THEN 0 ELSE bars[i].Close + CloseSumFrom(bars, i + 1)

\* the reference definition of the verdict, on the sums of the last 5 and the
\* last 10 closes: shortMA = sum5/5, longMA = sum10/10 and, with both scaled
\* by 50, |shortMA - longMA| / longMA > 0.005
RefSum5(bars) == CloseSumFrom(bars, Len(bars) - 4)
RefSum10(bars) == CloseSumFrom(bars, Len(bars) - 9)
RefHigherHigh(bars) ==
    \A i \in 1..(Len(bars) - 1) : bars[Len(bars)].High > bars[i].High
RefLowerLow(bars) ==
    \A i \in 1..(Len(bars) - 1) : bars[Len(bars)].Low < bars[i].Low
RefTrendChange(bars) ==
    LET short50 == 10 * RefSum5(bars)
        long50  == 5 * RefSum10(bars)
    IN  IF long50 > 0 THEN 200 * Abs(short50 - long50) > long50 ELSE FALSE

MatchesReference ==
    (DetectedOnFull /\ FiniteBars(series.bars) /\ RefSum10(series.bars) # 0) =>
        /\ detected # NoVerdict
        /\ detected.higher_high = RefHigherHigh(series.bars)
        /\ detected.lower_low = RefLowerLow(series.bars)
        /\ detected.sum_short = RefSum5(series.bars)
        /\ detected.sum_long = RefSum10(series.bars)
        /\ detected.trend_change = RefTrendChange(series.bars)
        /\ detected.current_price = series.bars[Len(series.bars)].Close

ExampleCloses == << 100, 100, 100, 100, 100, 102, 102, 102, 102, 110 >>
OnExample ==
    /\ DetectedOnFull
    /\ [i \in 1..Len(series.bars) |-> series.bars[i].Close] = ExampleCloses

\* C11 (as claimed): for at least 10 finite bars with nonzero longMA the
\* verdict equals the reference definition, and the closes
\* [100 x5, 102 x4, 110] give shortMA = 103.6, longMA = 101.0, trendChange.
C11_ReferenceAndExampleAsClaimed ==
    /\ MatchesReference
    /\ OnExample =>
          /\ 10 * detected.sum_short = 1036 * ShortWindow
          /\ 10 * detected.sum_long = 1010 * LongWindow
          /\ detected.trend_change

\* C11 (amended): for at least 10 finite bars with nonzero longMA the verdict
\* equals the reference definition, and the closes [100 x5, 102 x4, 110]
\* give shortMA = 103.6, longMA = 101.8, trendChange.
C11_ReferenceAndExample ==
    /\ MatchesReference
    /\ OnExample =>
          /\ 10 * detected.sum_short = 1036 * ShortWindow
          /\ 10 * detected.sum_long = 1018 * LongWindow
          /\ detected.trend_change

C11_Witness ==
    /\ OnExample
    /\ detected # NoVerdict
    /\ detected.trend_change
    /\ detected.sum_long = 1018

\* C12: for at least 10 bars whose last 10 closes have mean 0 the detector
\* returns a verdict (no fault) whose trendChange is false.
C12_ZeroLongMAIsNoTrend ==
    (DetectedOnFull /\ FiniteBars(series.bars) /\ RefSum10(series.bars) = 0) =>
        (detected # NoVerdict /\ ~detected.trend_change)

\* C13: for a missing series and for every series of fewer than 10 bars the
\* detector returns no verdict without raising, and no notification follows.
C13_ShortSeriesNoVerdict ==
    (sched = "detected" /\ (series = NoFrame \/ Len(series.bars) < 10)) =>
        /\ detected = NoVerdict
        /\ ~NotifyCondition(detected)
        /\ ~DetectFrameRaises(series)

C13_Witness ==
    /\ sched = "detected"
    /\ series # NoFrame
    /\ Len(series.bars) = 9
    /\ detected = NoVerdict

\* C14: for at least 10 bars of which some high, low or close is NaN the
\* detector returns no verdict.
C14_NaNIsDetectionFailure ==
    (DetectedOnFull /\ ~FiniteBars(series.bars)) => detected = NoVerdict

(***************************************************************************)
(* Properties of construction and of the gate                               *)
(***************************************************************************)
\* C16: whenever the gate computes its wake time, that time is on the
\* 15-minute grid, strictly later than now and at most 15 minutes after now.
C16_WakeIsNextBoundary ==
    sched = "gate" =>
        /\ NextRunTime(now) % (GateMinutes * MinuteSeconds) = 0
        /\ NextRunTime(now) > now
        /\ NextRunTime(now) - now <= GateMinutes * MinuteSeconds

\* C17: with a missing or unparseable configuration file construction does
\* not fail: main() never ends in the constructor and, once past it, the
\* tracker has zero instruments.
C17_MissingConfigDegrades ==
    config_file \in {"missing", "unparseable"} =>
        /\ sched # "crashed"
        /\ sched # "construct" => symbols = {}

(***************************************************************************)
(* Further properties of the scheduling loop                                *)
(***************************************************************************)
\* C18: once a cycle has run, the time since its start plus the time left
\* until the job is due is never less than one period, however long the
\* cycle took: a cycle is dispatched no earlier than one full period after
\* the previous cycle's start and an overrun leaves no backlog of due runs.
C18_NoCatchUp ==
    (sinceStart # NoCycle /\ sched \in {"sleep", "run_pending", "cooldown", "job"}) =>
        sinceStart + nextRunIn >= SchedulePeriod

C18_Witness ==
    /\ sched = "job"
    /\ sinceStart >= SchedulePeriod + MaxCycleSeconds

\* C20: while notification.discord.enabled is false no network call is made.
C20_DisabledSendsNothing ==
    discord_enabled = FALSE => \A s \in Instruments : netCalls[s] = 0

(***************************************************************************)
(* One cycle on its own                                                     *)
(***************************************************************************)
\* the place of a symbol in self.symbols (the order of list(set(...)) is
\* arbitrary; it is taken to be the order of InstrumentNames)
Position(s) == CHOOSE i \in 1..Len(InstrumentNames) : InstrumentNames[i] = s

\* the symbols whose fetch may return bars, and what each fetch may return
DeepNames == {"AAA", " AAA"}
Offered(s) ==
    IF s \in DeepNames
    THEN {NoData} \cup {d \in 1..Len(FramePool) : FramePool[d] = TrendFrame}
    ELSE {NoData}

\* a constructed tracker whose groups list the first k names together and
\* that has no webhook; the schedule library's job is about to call
\* _safe_analyze_and_notify
InitCycle ==
    /\ sched = "job"
    /\ \E k \in 0..MaxInstruments : symbols = {InstrumentNames[i] : i \in 1..k}
    /\ discord_webhook = NoWebhook
    /\ interval = 900
    /\ discord_enabled = FALSE
    /\ config_file = "valid"
    /\ now = 0
    /\ slept = FALSE
    /\ nextRunIn = 0
    /\ sinceStart = NoCycle
    /\ faults = 0
    /\ raised = FALSE
    /\ IdleWork
    /\ NoDetect

\* the pool's queue is first in, first out: the tasks start in list order
WorkerStartInOrder(s) ==
    /\ WorkerStart(s)
    /\ \A t \in symbols : Position(t) < Position(s) => wpc[t] # "queued"

\* fetch_data with a provider that answers without raising
FetchOffered(s) ==
    /\ FetchData(s)
    /\ data'[s] \in Offered(s)
    /\ caughtBy' = caughtBy

NextCycle ==
    \/ AnalyzeAndNotify
    \/ \E s \in Instruments : WorkerStartInOrder(s)
    \/ \E s \in Instruments : FetchOffered(s)
    \/ \E s \in Instruments : Detect(s)
    \/ \E s \in Instruments : Notify(s)
    \/ Join
    \/ SafeExcept

SpecCycle == InitCycle /\ [][NextCycle]_vars

(***************************************************************************)
(* Properties of one cycle                                                  *)
(***************************************************************************)
\* C15: the number of instruments being processed at the same time never
\* exceeds min(10, number of instruments).
C15_WorkerCap ==
    Cardinality(Running) <= Min2(10, Cardinality(symbols))

C15_Witness ==
    /\ Cardinality(symbols) > 10
    /\ Cardinality(Running) = 10
    /\ \E s \in symbols : wpc[s] = "queued"
    /\ \E s \in symbols : wpc[s] = "notify"

RECURSIVE SumOver(_, _)
SumOver(f, S) ==
    IF S = {} THEN 0
    ELSE LET x == CHOOSE y \in S : TRUE IN f[x] + SumOver(f, S \ {x})

\* the configured entries that name instrument t
EntriesOf(t) == {s \in symbols : Strip(s) = t}

\* C19: when a cycle has completed, each distinct instrument (a symbol
\* without its surrounding blanks) has been fetched exactly once and notified
\* at most once.
C19_EachInstrumentOnce ==
    (sched = "job_done" /\ ~raised) =>
        \A t \in {Strip(s) : s \in symbols} :
            /\ SumOver(fetchCalls, EntriesOf(t)) = 1
            /\ SumOver(notifyCalls, EntriesOf(t)) <= 1

====
